---- MODULE Spec2Model ----
(***************************************************************************)
(* Model of gomad's multi-resolution time-series store (src/tsstore.go,    *)
(* the revision starting at line 154): log segments on disk, levels        *)
(* (TimeSeries) made of segments, and the table (TimeSeriesTable) that     *)
(* chains the levels.  The driver follows the tests of src/sched.go: it    *)
(* adds the ramp 0, 1, 2, ... to the table, and may close the table and    *)
(* open it again on the same directory, as the daemon does on restart.     *)
(*                                                                         *)
(* Further specifications share the state: SpecTorn adds an Add during     *)
(* which the process stops in the middle of its write; SpecErr is a        *)
(* poller's tick with one failing I/O operation; SpecRace runs ReadAll of  *)
(* a chart request next to the poller's Add; SpecSched is main's           *)
(* StartScheduler (src/sched.go:11-25) with its tickers and goroutines.    *)
(* SpecHang is the scheduler with a command that never returns, under     *)
(* fair scheduling; SpecCmd is a command handler's tick (Stat, Execute) on *)
(* the output of its command; SpecCPU is the CPU-load handler's tick on    *)
(* successive snapshots of /proc/stat, in exact uint32 arithmetic.         *)
(*                                                                         *)
(* float64 values are modelled as exact rationals <<num, den>>; file names *)
(* are sequences of decimal digits; a file is a sequence of gob messages.  *)
(* Len is a uint32 and NextID an int: neither can wrap within MaxAdds.     *)
(***************************************************************************)
EXTENDS Integers, Sequences, FiniteSets, TLC

\* ------------------------------------------------------------------ bounds
\* number of Table.Add calls of the driver
MaxAdds == 11
\* number of times the table is closed and opened again
MaxOpens == 2
\* RollUp of a level is drawn from 1..MaxRollUp
MaxRollUp == 2
\* Cap of a level is drawn from 2..MaxCap
MaxCap == 5
\* number of ticks a ticker fires
MaxTicks == 2
\* number of HTTP requests served at the same time
MaxRequests == 2
\* the lines of output a command prints
MaxLines == 2
\* the counters of /proc/stat are drawn from 0..MaxCount and the largest uint32
MaxCount == 0
\* the messages of a file handed to the decode loop
MaxMsgs == 4

\* ------------------------------------------------------- program constants
\* levels of a table, as configured by the handlers
NLevels == 3

VARIABLES
    props,      \* []TimeSeriesProps the table was created with (finest first)
    TS,         \* TimeSeriesTable.TS: the levels, coarsest first
    dirs,       \* the level directories on disk: id -> [exists, files: name -> inode]
    inodes,     \* contents of every file ever created: a sequence of gob messages
    hist,       \* per level, the values passed to its Add so far (history)
    ids,        \* per level, the IDs of the logs it created, in creation order
    handles,    \* per directory, the write descriptors the process holds open
    before,     \* per level, what ReadAll returned right before the last Close
    atOpen,     \* per level, what ReadAll returned right after the last open
    ret,        \* the last Table.Add returned an error
    fault,      \* the I/O operation that failed during the last Table.Add
    faulted,    \* an I/O operation has failed in this run
    poller,     \* who calls Table.Add: a test, or the poller of a handler
    exited,     \* the process has ended (log.Fatal)
    now,        \* time.Now()
    i,          \* the driver's loop counter: the next value of the ramp
    opened,     \* the table is open (not closed)
    opens,      \* how many times the directory was opened again
    last,       \* the operation that ran last
    Registry,   \* the registered handlers: path -> PollInterval
    pending,    \* the entries of Registry StartScheduler's loop has yet to visit
    handler,    \* the loop variable of StartScheduler
    tasks,      \* the goroutines StartScheduler has started, in starting order
    execs,      \* per handler, the number of Execute calls so far
    adding,     \* per handler, the number of Table.Add calls in progress
    serving,    \* the number of ServeHTTP calls in progress
    pc,         \* where main is: in StartScheduler ("range") or serving
    rd,         \* a TimeSeries.ReadAll in progress on behalf of a chart request
    cmd,        \* a CommandHandler: its properties, their tables, its last tick
    cpu         \* a CPULoadHandler: its last snapshot and what it appended

tableVars == <<props, TS, dirs, inodes, hist, ids, handles, before, atOpen,
               ret, fault,
               faulted,
               poller, exited, now, i, opened, opens, last>>

schedVars == <<Registry, pending, handler, tasks, execs, adding, serving, pc>>

pollVars == <<cmd, cpu>>

vars == <<tableVars, schedVars, rd, pollVars>>

\* --------------------------------------------------- float64 as rationals
RECURSIVE GCD(_, _)
GCD(a, b) == IF b = 0 THEN a ELSE GCD(b, a % b)

Rat(n, d) == LET g == GCD(n, d) IN <<n \div g, d \div g>>

Float64(n) == <<n, 1>>

RatAdd(a, b) == Rat(a[1] * b[2] + b[1] * a[2], a[2] * b[2])

RatDiv(a, n) == Rat(a[1], a[2] * n)

\* ------------------------------------------------------------ file names
\* fmt.Sprintf("%d", n): the decimal digits of n
RECURSIVE Sprintf(_)
Sprintf(n) == IF n < 10 THEN <<n>> ELSE Append(Sprintf(n \div 10), n % 10)

\* fmt.Sscanf(s, "%d", &n): the number a digit string denotes
RECURSIVE Sscanf(_)
Sscanf(s) ==
    IF s = <<>> THEN 0
    ELSE 10 * Sscanf(SubSeq(s, 1, Len(s) - 1)) + s[Len(s)]

\* TimeSeriesLogs.Less: string comparison of two paths of one directory
RECURSIVE Less(_, _)
Less(a, b) ==
    IF b = <<>> THEN FALSE
    ELSE IF a = <<>> THEN TRUE
    ELSE IF a[1] # b[1] THEN a[1] < b[1]
    ELSE Less(Tail(a), Tail(b))

\* a sort that puts the greatest name first
RECURSIVE SortLogsDescending(_)
SortLogsDescending(names) ==
    IF names = {} THEN <<>>
    ELSE LET m == CHOOSE x \in names : \A y \in names \ {x} : Less(y, x)
         IN <<m>> \o SortLogsDescending(names \ {m})

\* sort.Sort(TimeSeriesLogs(logs)) on the names of one directory
RECURSIVE SortLogs(_)
SortLogs(names) ==
    IF names = {} THEN <<>>
    ELSE LET m == CHOOSE x \in names : \A y \in names \ {x} : Less(x, y)
         IN <<m>> \o SortLogs(names \ {m})

\* ------------------------------------------------------------- gob stream
TypeMsg(t) == [kind |-> "type", id |-> t]

ValueMsg(dp) == [kind |-> "value", dp |-> dp]

\* the leading bytes of a message whose write did not complete
PartialMsg == [kind |-> "partial"]

\* gob.Encoder.Encode: a fresh encoder first sends the type descriptors of
\* DataPoint and of time.Time, then the value
Encode(sent, dp) ==
    (IF sent THEN <<>> ELSE <<TypeMsg("DataPoint"), TypeMsg("Time")>>)
        \o <<ValueMsg(dp)>>

\* a decode loop that ends at the first decode error instead of ignoring it
RECURSIVE DecodeUntilError(_, _, _)
DecodeUntilError(msgs, seen, data) ==
    IF msgs = <<>> THEN data
    ELSE LET m == Head(msgs) IN
         IF m.kind = "type"
         THEN IF m.id \in seen THEN data
              ELSE DecodeUntilError(Tail(msgs), seen \cup {m.id}, data)
         ELSE DecodeUntilError(Tail(msgs), seen, Append(data, m.dp))

\* the decode loop of TimeSeriesLog.ReadAll, one message per step: a value
\* is appended; a new type descriptor is registered; a type descriptor the
\* decoder has already seen makes Decode fail ("duplicate type received"),
\* which the loop ignores and goes on; the end of the file (io.EOF) ends it.
\* A message cut short by the end of the file makes Decode fail with
\* io.ErrUnexpectedEOF, which the loop ignores as well; the next Decode finds
\* the end of the file.
RECURSIVE DecodeAll(_, _, _)
DecodeAll(msgs, seen, data) ==
    IF msgs = <<>> THEN data
    ELSE LET m == Head(msgs) IN
         IF m.kind = "partial" THEN data
         ELSE IF m.kind = "type"
         THEN IF m.id \in seen THEN DecodeAll(Tail(msgs), seen, data)
              ELSE DecodeAll(Tail(msgs), seen \cup {m.id}, data)
         ELSE DecodeAll(Tail(msgs), seen, Append(data, m.dp))

\* ------------------------------------------------------------ TimeSeriesLog
NoFiles == [p \in {} |-> 0]

\* os.OpenFile(path, O_CREATE|O_APPEND|O_WRONLY) and a new encoder
NewTimeSeriesLog(S, id, path) ==
    IF path \in DOMAIN S.dirs[id].files
    THEN [S |-> [S EXCEPT !.handles[id] = @ + 1],
          log |-> [path |-> path, ino |-> S.dirs[id].files[path],
                   file |-> TRUE, sent |-> FALSE]]
    ELSE LET ino == Len(S.inodes) + 1 IN
         [S |-> [S EXCEPT !.inodes = Append(@, <<>>),
                          !.dirs[id].files = @ @@ (path :> ino),
                          !.handles[id] = @ + 1],
          log |-> [path |-> path, ino |-> ino, file |-> TRUE, sent |-> FALSE]]

\* a log opened without O_APPEND: the writes of a session start at the head
\* of the file and go over what it holds
LogAddOverwrite(S, j, k, val) ==
    LET log == S.TS[j].Logs[k]
        msgs == Encode(log.sent, [Tstamp |-> S.now, Val |-> val])
        old == S.inodes[log.ino]
    IN IF ~log.file THEN S
       ELSE IF log.sent
            THEN [S EXCEPT !.inodes[log.ino] = @ \o msgs]
            ELSE [S EXCEPT !.inodes[log.ino] =
                               msgs \o SubSeq(old, Len(msgs) + 1, Len(old)),
                           !.TS[j].Logs[k].sent = TRUE]

\* TimeSeriesLog.Add on the k-th log of level j: one record appended through
\* the log's own descriptor; on a closed file nothing is written
LogAdd(S, j, k, val) ==
    LET log == S.TS[j].Logs[k] IN
    IF log.file
    THEN [S EXCEPT !.inodes[log.ino] =
                       @ \o Encode(log.sent, [Tstamp |-> S.now, Val |-> val]),
                   !.TS[j].Logs[k].sent = TRUE]
    ELSE S

\* TimeSeriesLog.Add whose write is cut short: of the messages Encode sends,
\* each with a write of its own, the first n reach the file whole and the
\* next one in part
LogAddTorn(S, j, k, val, n) ==
    LET log == S.TS[j].Logs[k]
        msgs == Encode(log.sent, [Tstamp |-> S.now, Val |-> val])
    IN [S EXCEPT !.inodes[log.ino] =
                     @ \o SubSeq(msgs, 1, n) \o <<PartialMsg>>]

\* the decode loop reports an error: some Decode failed before the end of the
\* file
RECURSIVE DecodeFails(_, _)
DecodeFails(msgs, seen) ==
    IF msgs = <<>> THEN FALSE
    ELSE LET m == Head(msgs) IN
         IF m.kind = "partial" THEN TRUE
         ELSE IF m.kind = "type"
         THEN m.id \in seen \/ DecodeFails(Tail(msgs), seen \cup {m.id})
         ELSE DecodeFails(Tail(msgs), seen)

\* a ReadAll that returns the first decode error other than io.EOF
LogReadAllStrict(S, id, log) ==
    IF log.path \in DOMAIN S.dirs[id].files
    THEN LET msgs == S.inodes[S.dirs[id].files[log.path]] IN
         IF DecodeFails(msgs, {}) THEN [err |-> TRUE, data |-> <<>>]
         ELSE [err |-> FALSE, data |-> DecodeAll(msgs, {}, <<>>)]
    ELSE [err |-> TRUE, data |-> <<>>]

\* TimeSeriesLog.ReadAll: opens the file by path and decodes it to the end
LogReadAll(S, id, log) ==
    IF log.path \in DOMAIN S.dirs[id].files
    THEN [err |-> FALSE,
          data |-> DecodeAll(S.inodes[S.dirs[id].files[log.path]], {}, <<>>)]
    ELSE [err |-> TRUE, data |-> <<>>]

\* TimeSeriesLog.Remove: os.Remove(path), its error dropped
LogRemove(S, id, log) ==
    [S EXCEPT !.dirs[id].files =
        [p \in (DOMAIN @) \ {log.path} |-> @[p]]]

\* TimeSeriesLog.Close
LogClose(log) == [log EXCEPT !.file = FALSE]

\* ------------------------------------------------------------- I/O failures
\* no operation fails
NoFault == [level |-> 0, kind |-> "none"]

\* os.OpenFile fails when level j creates its next log
CreateFails(S, j) == S.fault = [level |-> j, kind |-> "create"]

\* enc.Encode fails when level j appends to its current log: nothing reaches
\* the file and the encoder is left as it was
WriteFails(S, j) == S.fault = [level |-> j, kind |-> "write"]

\* a bucket as large as the whole capacity
BucketSizeCap(ts) == ts.Cap

\* a bucket size that is never 0
BucketSizeNonZero(ts) == IF ts.Cap < 2 THEN 1 ELSE ts.Cap \div 2

\* --------------------------------------------------------------- TimeSeries
BucketSize(ts) == ts.Cap \div 2

\* roll-overs that keep every log, no log, or only the last one
KeepLogsAll(logs) == logs

KeepLogsNone(logs) == IF Len(logs) > 2 THEN <<>> ELSE logs

KeepLogsLast(logs) ==
    IF Len(logs) > 2 THEN SubSeq(logs, Len(logs), Len(logs)) ELSE logs

\* the logs Add keeps at a roll-over
KeepLogs(logs) ==
    IF Len(logs) > 2 THEN SubSeq(logs, Len(logs) - 1, Len(logs)) ELSE logs

\* the logs Add removes at a roll-over
OldLogs(logs) ==
    IF Len(logs) > 2 THEN SubSeq(logs, 1, Len(logs) - 2) ELSE <<>>

RECURSIVE RemoveLogs(_, _, _)
RemoveLogs(S, id, logs) ==
    IF logs = <<>> THEN S
    ELSE RemoveLogs(LogRemove(S, id, Head(logs)), id, Tail(logs))

\* a roll-over that does not advance NextID
RollOverSameID(S, j) ==
    LET ts == S.TS[j]
        S1 == RemoveLogs([S EXCEPT !.TS[j].Logs = KeepLogs(ts.Logs)],
                         ts.Path, OldLogs(ts.Logs))
        r  == NewTimeSeriesLog(S1, ts.Path, Sprintf(ts.NextID))
    IN [r.S EXCEPT !.TS[j].Logs = Append(@, r.log),
                   !.ids[j] = Append(@, ts.NextID)]

\* a roll-over that creates the log NextID first and evicts afterwards
RollOverCreateFirst(S, j) ==
    LET ts == S.TS[j]
        r  == NewTimeSeriesLog(S, ts.Path, Sprintf(ts.NextID))
        logs == Append(ts.Logs, r.log)
        S1 == RemoveLogs([r.S EXCEPT !.TS[j].Logs = KeepLogs(logs)],
                         ts.Path, OldLogs(logs))
    IN [S1 EXCEPT !.TS[j].NextID = @ + 1,
                  !.ids[j] = Append(@, ts.NextID)]

\* the roll-over branch of Add: evict, then create the log NextID
RollOver(S, j) ==
    LET ts == S.TS[j]
        S1 == RemoveLogs([S EXCEPT !.TS[j].Logs = KeepLogs(ts.Logs)],
                         ts.Path, OldLogs(ts.Logs))
        r  == NewTimeSeriesLog(S1, ts.Path, Sprintf(ts.NextID))
    IN [r.S EXCEPT !.TS[j].Logs = Append(@, r.log),
                   !.TS[j].NextID = @ + 1,
                   !.ids[j] = Append(@, ts.NextID)]

\* a failed creation that leaves the old logs where they are
RollOverFailedKeepsLogs(S, j) == [S EXCEPT !.err = TRUE, !.hit = TRUE]

\* the roll-over branch of Add when the new log cannot be created: the old
\* logs are evicted already, and Add returns the error
RollOverFailed(S, j) ==
    LET ts == S.TS[j]
        S1 == RemoveLogs([S EXCEPT !.TS[j].Logs = KeepLogs(ts.Logs)],
                         ts.Path, OldLogs(ts.Logs))
    IN [S1 EXCEPT !.err = TRUE, !.hit = TRUE]

\* currLog.Add(val) of level j; its result is dropped
CurrLogAdd(S, j, val) ==
    IF WriteFails(S, j) THEN [S EXCEPT !.hit = TRUE]
    ELSE LogAdd(S, j, Len(S.TS[j].Logs), val)

\* an Add that returns nil whatever the lower level's Add returned
LowerErrDropped(S) == FALSE

\* the error of the lower level's Add, which the upper Add returns
LowerErr(S) == S.err

\* a batch passed on one value too late
BatchFullLate(ts) == ts.BatchLen = ts.RollUp + 1

\* the batch holds RollUp values: its mean goes to the lower level
BatchFull(ts) == ts.BatchLen = ts.RollUp

\* a reset that forgets to clear the running sum
BatchResetLen(ts) == [ts EXCEPT !.BatchLen = 0]

\* a reset that clears the running sum and keeps the count
BatchResetVal(ts) == [ts EXCEPT !.BatchVal = Float64(0)]

\* the batch is emptied after its mean was passed on
BatchReset(ts) == [ts EXCEPT !.BatchVal = Float64(0), !.BatchLen = 0]

\* TimeSeries.Add on level j (TS[j]): roll over when the current bucket is
\* full or none exists (and return the error if the new log cannot be
\* created), append to the current (last) log, count the point, then
\* coalesce into the lower level and return what its Add returned.  S.err is
\* the value Add returns.  With a bucket size of 0 the modulo of the first
\* test divides by zero: Add panics (S.panic) and nothing else happens.
RECURSIVE TimeSeriesAdd(_, _, _)
TimeSeriesAdd(S, j, val) ==
    LET ts == S.TS[j]
        roll == ts.Len % BucketSize(ts) = 0
        S1 == IF roll THEN RollOver(S, j) ELSE S
        S2 == CurrLogAdd(S1, j, val)
        S3 == [S2 EXCEPT !.TS[j].Len = @ + 1,
                         !.hist[j] = Append(@, val)]
        S4 == [S3 EXCEPT !.TS[j].BatchVal = RatAdd(@, val),
                         !.TS[j].BatchLen = @ + 1]
    IN IF BucketSize(ts) = 0 THEN [S EXCEPT !.panic = TRUE]
       ELSE IF roll /\ CreateFails(S, j) THEN RollOverFailed(S, j)
       ELSE IF ts.LowerLevel = 0 THEN S3
       ELSE IF BatchFull(S4.TS[j])
            THEN LET S5 == TimeSeriesAdd(S4, ts.LowerLevel,
                               RatDiv(S4.TS[j].BatchVal, S4.TS[j].BatchLen))
                 IN IF S5.panic THEN S5
                    ELSE [S5 EXCEPT !.TS[j] = BatchReset(@),
                                    !.err = LowerErr(S5)]
            ELSE S4

\* a ReadAll that puts each log's points in front of the earlier ones
RECURSIVE ReadLogsReversed(_, _, _, _)
ReadLogsReversed(S, id, logs, data) ==
    IF logs = <<>> THEN [err |-> FALSE, data |-> data]
    ELSE LET tmp == LogReadAll(S, id, Head(logs)) IN
         IF tmp.err THEN [err |-> TRUE, data |-> <<>>]
         ELSE ReadLogsReversed(S, id, Tail(logs), tmp.data \o data)

\* TimeSeries.ReadAll on level j: every log's ReadAll, in list order
RECURSIVE ReadLogs(_, _, _, _)
ReadLogs(S, id, logs, data) ==
    IF logs = <<>> THEN [err |-> FALSE, data |-> data]
    ELSE LET tmp == LogReadAll(S, id, Head(logs)) IN
         IF tmp.err THEN [err |-> TRUE, data |-> <<>>]
         ELSE ReadLogs(S, id, Tail(logs), data \o tmp.data)

TimeSeriesReadAll(S, j) == ReadLogs(S, S.TS[j].Path, S.TS[j].Logs, <<>>)

\* TimeSeries.Close
\* the logs of a level whose descriptor is open: those Close closes
OpenFiles(ts) == Cardinality({k \in DOMAIN ts.Logs : ts.Logs[k].file})

TimeSeriesClose(ts) ==
    [ts EXCEPT !.Logs = [k \in DOMAIN @ |-> LogClose(@[k])]]

\* the number of data points NewTimeSeries counts in a directory
RECURSIVE CountLogs(_, _, _)
CountLogs(S, id, logs) ==
    IF logs = <<>> THEN 0
    ELSE Len(LogReadAll(S, id, Head(logs)).data)
             + CountLogs(S, id, Tail(logs))

\* the NextID NewTimeSeries retrieves from the current (last) log
RetrieveNextID(logs) ==
    IF Len(logs) > 0 THEN Sscanf(logs[Len(logs)].path) ELSE 0

\* an open that takes up the batch where the records on disk leave it
NewTimeSeriesKeepBatch(S, id, rollUp, capacity, lowerLevel) ==
    LET names == IF S.dirs[id].exists THEN DOMAIN S.dirs[id].files ELSE {}
        sorted == SortLogs(names)
        logs == [k \in DOMAIN sorted |->
                    NewTimeSeriesLog(S, id, sorted[k]).log]
    IN [Path |-> id, RollUp |-> rollUp, Cap |-> capacity,
        Len |-> CountLogs(S, id, logs),
        NextID |-> RetrieveNextID(logs), Logs |-> logs,
        LowerLevel |-> lowerLevel,
        BatchLen |-> CountLogs(S, id, logs) % rollUp, BatchVal |-> Float64(0)]

\* NewTimeSeries on directory id
NewTimeSeries(S, id, rollUp, capacity, lowerLevel) ==
    LET names == IF S.dirs[id].exists THEN DOMAIN S.dirs[id].files ELSE {}
        sorted == SortLogs(names)
        logs == [k \in DOMAIN sorted |->
                    NewTimeSeriesLog(S, id, sorted[k]).log]
    IN [Path |-> id, RollUp |-> rollUp, Cap |-> capacity,
        Len |-> CountLogs(S, id, logs),
        NextID |-> RetrieveNextID(logs), Logs |-> logs,
        LowerLevel |-> lowerLevel,
        BatchLen |-> 0, BatchVal |-> Float64(0)]

\* ---------------------------------------------------------- TimeSeriesTable
\* a table whose level TS[j] takes the entry tsProps[j - 1] (0-based)
NewTimeSeriesTableSameOrder(S, tsProps) ==
    LET n == Len(tsProps)
        ts == [j \in 1..n |->
                  NewTimeSeries(S, n - j, tsProps[j].RollUp,
                                tsProps[j].Cap, j - 1)]
    IN
    [S EXCEPT
        !.TS = ts,
        !.dirs = [id \in DOMAIN @ |-> [@[id] EXCEPT !.exists = TRUE]],
        !.handles = [id \in DOMAIN @ |-> @[id] + Len(ts[n - id].Logs)]]

\* NewTimeSeriesTable: the levels are built from the last entry of tsProps to
\* the first; TS[j] is built from tsProps[n - j] (0-based), lives in the
\* directory of that index, and has TS[j - 1] as its lower level
NewTimeSeriesTable(S, tsProps) ==
    LET n == Len(tsProps)
        ts == [j \in 1..n |->
                  NewTimeSeries(S, n - j, tsProps[n - j + 1].RollUp,
                                tsProps[n - j + 1].Cap, j - 1)]
    IN
    [S EXCEPT
        !.TS = ts,
        !.dirs = [id \in DOMAIN @ |-> [@[id] EXCEPT !.exists = TRUE]],
        !.handles = [id \in DOMAIN @ |-> @[id] + Len(ts[n - id].Logs)]]

\* a top level that is the coarsest level
TopLevelCoarsest(S) == 1

\* TimeSeriesTable.TopLevel, as an index into TS
TopLevel(S) == Len(S.TS)

\* TimeSeriesTable.Add
TableAdd(S, val) == TimeSeriesAdd(S, TopLevel(S), val)

\* TimeSeriesTable.Close
TableClose(S) ==
    [S EXCEPT
        !.TS = [j \in DOMAIN @ |-> TimeSeriesClose(@[j])],
        !.handles = [id \in DOMAIN @ |->
                        @[id] - OpenFiles(S.TS[Len(S.TS) - id])]]

\* ------------------------------------------------------------------ driver
State == [TS |-> TS, dirs |-> dirs, inodes |-> inodes, hist |-> hist,
          ids |-> ids, handles |-> handles, now |-> now,
          fault |-> NoFault, hit |-> FALSE, err |-> FALSE, panic |-> FALSE]

\* the configurations: 1..NLevels levels, one Cap for the table
Configs ==
    UNION {{[k \in 1..n |-> [RollUp |-> r[k], Cap |-> c]] :
                r \in [1..n -> 1..MaxRollUp], c \in 2..MaxCap} :
           n \in 1..NLevels}

\* no ReadAll is in progress
NoRead == [pc |-> "idle", level |-> 0, logs |-> <<>>, data |-> <<>>,
           err |-> FALSE]

\* neither a command handler nor the CPU-load handler is modelled
NoPollers ==
    /\ cmd = <<>>
    /\ cpu = <<>>

\* no handler is registered and no scheduler runs
NoScheduler ==
    /\ rd = NoRead
    /\ Registry = <<>>
    /\ pending = {}
    /\ handler = ""
    /\ tasks = <<>>
    /\ execs = <<>>
    /\ adding = <<>>
    /\ serving = 0
    /\ pc = "test"

\* the disk before the table exists
EmptyDisk(n) ==
    [TS |-> <<>>,
     dirs |-> [id \in 0..(n - 1) |-> [exists |-> FALSE, files |-> NoFiles]],
     inodes |-> <<>>,
     hist |-> [j \in 1..n |-> <<>>],
     ids |-> [j \in 1..n |-> <<>>],
     handles |-> [id \in 0..(n - 1) |-> 0],
     now |-> 0,
     fault |-> NoFault, hit |-> FALSE, err |-> FALSE, panic |-> FALSE]

\* the table of properties p right after NewTimeSeriesTable on an empty
\* directory
InitTable(p) ==
    LET S == NewTimeSeriesTable(EmptyDisk(Len(p)), p) IN
    /\ props = p
    /\ TS = S.TS
    /\ dirs = S.dirs
    /\ inodes = S.inodes
    /\ hist = S.hist
    /\ ids = S.ids
    /\ handles = S.handles
    /\ before = [j \in DOMAIN S.TS |-> <<>>]
    /\ atOpen = [j \in DOMAIN S.TS |-> <<>>]
    /\ ret = FALSE
    /\ fault = NoFault
    /\ faulted = FALSE
    /\ poller = "test"
    /\ exited = FALSE
    /\ now = S.now
    /\ i = 0
    /\ opened = TRUE
    /\ opens = 0
    /\ last = "new"
    /\ NoScheduler
    /\ NoPollers

Init == \E p \in Configs : InitTable(p)

\* one iteration of the tests' loop: tbl.Add(float64(i)); a panic of Add
\* ends the process
Add ==
    /\ ~exited
    /\ opened
    /\ i < MaxAdds
    /\ LET S == TableAdd(State, Float64(i)) IN
        /\ TS' = S.TS
        /\ dirs' = S.dirs
        /\ inodes' = S.inodes
        /\ hist' = S.hist
        /\ ids' = S.ids
        /\ handles' = S.handles
        /\ ret' = S.err
        /\ exited' = S.panic
    /\ now' = now + 1
    /\ i' = i + 1
    /\ last' = "add"
    /\ UNCHANGED <<props, before, atOpen, fault, faulted, poller, opened,
                   opens>>
    /\ UNCHANGED <<schedVars, rd, pollVars>>

\* tbl.Close()
Close ==
    /\ ~exited
    /\ opened
    /\ opens < MaxOpens
    /\ TS' = TableClose(State).TS
    /\ handles' = TableClose(State).handles
    /\ before' = [j \in DOMAIN TS |-> TimeSeriesReadAll(State, j).data]
    /\ opened' = FALSE
    /\ last' = "close"
    /\ UNCHANGED <<props, dirs, inodes, hist, ids, atOpen, ret, fault,
                   faulted, poller, exited, now, i, opens>>
    /\ UNCHANGED <<schedVars, rd, pollVars>>

\* NewTimeSeriesTable on the same directory with the same properties
Open ==
    /\ ~exited
    /\ ~opened
    /\ LET S == NewTimeSeriesTable(State, props) IN
        /\ TS' = S.TS
        /\ dirs' = S.dirs
        /\ handles' = S.handles
        /\ atOpen' = [j \in DOMAIN S.TS |-> TimeSeriesReadAll(S, j).data]
    /\ ids' = [j \in DOMAIN ids |-> <<>>]
    /\ opened' = TRUE
    /\ opens' = opens + 1
    /\ last' = "open"
    /\ UNCHANGED <<props, inodes, hist, before, ret, fault, faulted, poller,
                   exited, now, i>>
    /\ UNCHANGED <<schedVars, rd, pollVars>>

Next == Add \/ Close \/ Open

Spec == Init /\ [][Next]_vars

\* ---------------------------------------------------------- small capacity
\* the configurations NewTimeSeries accepts although their bucket size is 0
SmallConfigs ==
    UNION {{[k \in 1..n |-> [RollUp |-> r[k], Cap |-> c]] :
                r \in [1..n -> 1..MaxRollUp], c \in 0..1} :
           n \in 1..NLevels}

InitCap == \E p \in SmallConfigs : InitTable(p)

SpecCap == InitCap /\ [][Next]_vars

\* ------------------------------------------------------- torn write driver
\* tbl.Add(float64(i)) during which the process stops: the top level has
\* rolled over if it had to, and the write to its current log is cut short.
\* Nothing runs after it: what a decoder makes of bytes appended behind a
\* torn message is outside this model.
Crash ==
    /\ opened
    /\ i < MaxAdds
    /\ LET j == TopLevel(State)
           ts == TS[j]
           S1 == IF ts.Len % BucketSize(ts) = 0 THEN RollOver(State, j)
                 ELSE State
           k == Len(S1.TS[j].Logs)
       IN /\ S1.TS[j].Logs[k].file
          /\ \E n \in 0..(IF S1.TS[j].Logs[k].sent THEN 0 ELSE 2) :
                LET S2 == LogAddTorn(S1, j, k, Float64(i), n) IN
                /\ TS' = S2.TS
                /\ dirs' = S2.dirs
                /\ inodes' = S2.inodes
                /\ ids' = S2.ids
    /\ handles' = [id \in DOMAIN handles |-> 0]
    /\ opened' = FALSE
    /\ last' = "crash"
    /\ UNCHANGED <<props, hist, before, atOpen, ret, fault, faulted, poller,
                   exited, now, i, opens>>
    /\ UNCHANGED <<schedVars, rd, pollVars>>

\* the directory is opened again only after a Close
Reopen == last = "close" /\ Open

NextTorn == Add \/ Close \/ Reopen \/ Crash

SpecTorn == Init /\ [][NextTorn]_vars

\* ------------------------------------------------------------ poller driver
\* the I/O operations of a table of n levels that may fail
Faults(n) == [level : 1..n, kind : {"create", "write"}]

\* a handler after its construction: its table is open on an empty directory
InitErr ==
    \E p \in Configs, h \in {"command", "cpuload"} :
        LET S == NewTimeSeriesTable(EmptyDisk(Len(p)), p) IN
        /\ props = p
        /\ TS = S.TS
        /\ dirs = S.dirs
        /\ inodes = S.inodes
        /\ hist = S.hist
        /\ ids = S.ids
        /\ handles = S.handles
        /\ before = [j \in DOMAIN S.TS |-> <<>>]
        /\ atOpen = [j \in DOMAIN S.TS |-> <<>>]
        /\ ret = FALSE
        /\ fault = NoFault
        /\ faulted = FALSE
        /\ poller = h
        /\ exited = FALSE
        /\ now = S.now
        /\ i = 0
        /\ opened = TRUE
        /\ opens = 0
        /\ last = "new"
        /\ NoScheduler
        /\ NoPollers

\* one tick of a poller, for one of its tables: Execute passes the sampled
\* value (here the ramp) to Table.Add.  CommandHandler.Execute drops what
\* Add returns; CPULoadHandler.Execute ends the process on an error.  At
\* most one I/O operation fails in a run, and it is one this Add performs.
Execute ==
    /\ ~exited
    /\ i < MaxAdds
    /\ \E f \in {NoFault} \cup (IF faulted THEN {} ELSE Faults(Len(TS))) :
        LET S == TableAdd([State EXCEPT !.fault = f], Float64(i)) IN
        /\ f = NoFault \/ S.hit
        /\ TS' = S.TS
        /\ dirs' = S.dirs
        /\ inodes' = S.inodes
        /\ hist' = S.hist
        /\ ids' = S.ids
        /\ handles' = S.handles
        /\ ret' = S.err
        /\ fault' = f
        /\ faulted' = (faulted \/ f # NoFault)
        /\ exited' = (poller = "cpuload" /\ S.err)
    /\ now' = now + 1
    /\ i' = i + 1
    /\ last' = "execute"
    /\ UNCHANGED <<props, before, atOpen, poller, opened, opens>>
    /\ UNCHANGED <<schedVars, rd, pollVars>>

NextErr == Execute

SpecErr == InitErr /\ [][NextErr]_vars

\* ------------------------------------------------------- concurrent reader
\* A chart request (ServeChart, PlotTimeSeries, chartSeries) calls ReadAll of
\* one level in the goroutine of the HTTP request while the poller's
\* goroutine calls Table.Add; nothing synchronises the two.  ReadAll ranges
\* over the slice ts.Logs as it is when the loop starts.
ReadAllBegin(j) ==
    /\ rd.pc \in {"idle", "done"}
    /\ rd' = [pc |-> "read", level |-> j, logs |-> TS[j].Logs, data |-> <<>>,
              err |-> FALSE]
    /\ UNCHANGED <<tableVars, schedVars, pollVars>>

\* one iteration of ReadAll's loop: log.ReadAll() opens the file by its path
\* and decodes it; an error ends ReadAll, which returns (nil, err)
ReadAllLog ==
    /\ rd.pc = "read"
    /\ rd.logs # <<>>
    /\ LET tmp == LogReadAll(State, TS[rd.level].Path, Head(rd.logs)) IN
        rd' = IF tmp.err
              THEN [rd EXCEPT !.pc = "done", !.logs = <<>>, !.data = <<>>,
                              !.err = TRUE]
              ELSE [rd EXCEPT !.logs = Tail(@), !.data = @ \o tmp.data]
    /\ UNCHANGED <<tableVars, schedVars, pollVars>>

\* ReadAll returns (data, nil)
ReadAllEnd ==
    /\ rd.pc = "read"
    /\ rd.logs = <<>>
    /\ rd' = [rd EXCEPT !.pc = "done"]
    /\ UNCHANGED <<tableVars, schedVars, pollVars>>

NextRace ==
    \/ Add
    \/ \E j \in DOMAIN TS : ReadAllBegin(j)
    \/ ReadAllLog
    \/ ReadAllEnd

SpecRace == Init /\ [][NextRace]_vars

\* --------------------------------------------------------------- scheduler
\* the handlers main registers itself: the config page, the root page and
\* the CPU load poller, which polls every second
Builtin == ("/config" :> 0) @@ ("/" :> 0) @@ ("/cpu" :> 1)

\* the paths of the handlers of the config file
Configured == {"/a", "/b"}

\* the PollInterval of a handler of the config file: whatever duration the
\* file gives (in seconds here), 0 when it gives none
Intervals == {-1, 0, 1}

\* the registries main can have built when it calls StartScheduler: the
\* built-in handlers and any handlers of the config file
Registries ==
    UNION {{Builtin @@ c : c \in [C -> Intervals]} : C \in SUBSET Configured}

\* the handler has time series tables its Execute adds to
HasTables(path) == path \notin {"/config", "/"}

\* no table is modelled
NoTable ==
    /\ props = <<>>
    /\ TS = <<>>
    /\ dirs = <<>>
    /\ inodes = <<>>
    /\ hist = <<>>
    /\ ids = <<>>
    /\ handles = <<>>
    /\ before = <<>>
    /\ atOpen = <<>>
    /\ ret = FALSE
    /\ fault = NoFault
    /\ faulted = FALSE
    /\ poller = "scheduler"
    /\ exited = FALSE
    /\ now = 0
    /\ i = 0
    /\ opened = TRUE
    /\ opens = 0
    /\ last = "new"

\* main has registered the handlers and calls StartScheduler
InitSched ==
    \E R \in Registries :
        /\ Registry = R
        /\ pending = DOMAIN R
        /\ handler = ""
        /\ tasks = <<>>
        /\ execs = [path \in DOMAIN R |-> 0]
        /\ adding = [path \in DOMAIN R |-> 0]
        /\ serving = 0
        /\ pc = "range"
        /\ rd = NoRead
        /\ NoTable
        /\ NoPollers

\* one iteration of StartScheduler's loop over Registry, in the map's
\* order: a handler with a positive PollInterval gets a ticker and a
\* goroutine holding its own copy of the loop variable
StartTicker ==
    /\ pc = "range"
    /\ \E path \in pending :
        /\ handler' = path
        /\ pending' = pending \ {path}
        /\ tasks' = IF Registry[path] > 0
                     THEN Append(tasks, [handler |-> path, tick |-> FALSE,
                                         pc |-> "wait", exec |-> "",
                                         fired |-> 0, late |-> FALSE,
                                         replay |-> FALSE])
                     ELSE tasks
    /\ UNCHANGED <<Registry, execs, adding, serving, pc>>
    /\ UNCHANGED <<tableVars, rd, pollVars>>

\* StartScheduler returns and main calls http.ListenAndServe
ListenAndServe ==
    /\ pc = "range"
    /\ pending = {}
    /\ pc' = "serve"
    /\ UNCHANGED <<Registry, pending, handler, tasks, execs, adding, serving>>
    /\ UNCHANGED <<tableVars, rd, pollVars>>

\* the ticker of task t fires: ticker.C holds one tick, a tick that finds it
\* full is dropped.  fired counts the ticks fired; late tells that the tick
\* held in ticker.C fired while the goroutine was inside Execute; replay
\* tells that the Execute last begun took such a tick.
Tick(t) ==
    /\ tasks[t].fired < MaxTicks
    /\ tasks' = [tasks EXCEPT
                    ![t].fired = @ + 1,
                    ![t].tick = TRUE,
                    ![t].late = IF tasks[t].tick THEN @
                                ELSE tasks[t].pc # "wait"]
    /\ UNCHANGED <<Registry, pending, handler, execs, adding, serving, pc>>
    /\ UNCHANGED <<tableVars, rd, pollVars>>

\* a goroutine that calls Execute on whatever the loop variable holds
HandlerOfLoop(task) == handler

\* the handler a goroutine calls Execute on: its own copy
HandlerOf(task) == task.handler

\* a scheduler that runs one Execute at a time, whatever the handler
CanExecuteSerial(task) ==
    /\ task.tick
    /\ \A u \in DOMAIN tasks : tasks[u].pc = "wait"

\* a loop that calls Execute again without waiting for a tick
CanExecuteWithoutTick(task) == task.pc = "wait"

\* a loop that starts a goroutine for Execute at every tick
CanExecuteAnytime(task) == task.tick

\* the goroutine's loop takes the next tick only between two Execute calls
CanExecute(task) == task.tick /\ task.pc = "wait"

\* for range ticker.C: the goroutine of task t receives a tick and calls
\* handler.Execute(), which, for a handler with tables, calls Table.Add
ExecuteBegin(t) ==
    LET h == HandlerOf(tasks[t]) IN
    /\ CanExecute(tasks[t])
    /\ tasks' = [tasks EXCEPT ![t].tick = FALSE, ![t].pc = "execute",
                              ![t].exec = h, ![t].late = FALSE,
                              ![t].replay = tasks[t].late]
    /\ execs' = [execs EXCEPT ![h] = @ + 1]
    /\ adding' = [adding EXCEPT ![h] = IF HasTables(h) THEN @ + 1 ELSE @]
    /\ UNCHANGED <<Registry, pending, handler, serving, pc>>
    /\ UNCHANGED <<tableVars, rd, pollVars>>

\* Execute returns to the goroutine's loop
ExecuteEnd(t) ==
    LET h == tasks[t].exec IN
    /\ tasks[t].pc = "execute"
    /\ tasks' = [tasks EXCEPT ![t].pc = "wait", ![t].exec = ""]
    /\ adding' = [adding EXCEPT ![h] = IF HasTables(h) THEN @ - 1 ELSE @]
    /\ UNCHANGED <<Registry, pending, handler, execs, serving, pc>>
    /\ UNCHANGED <<tableVars, rd, pollVars>>

\* net/http starts a goroutine that calls ServeHTTP of the handler
\* registered for the request's path; no ServeHTTP of any handler calls
\* Execute or Add
ServeHTTPBegin ==
    /\ pc = "serve"
    /\ serving < MaxRequests
    /\ serving' = serving + 1
    /\ UNCHANGED <<Registry, pending, handler, tasks, execs, adding, pc>>
    /\ UNCHANGED <<tableVars, rd, pollVars>>

\* ServeHTTP returns
ServeHTTPEnd ==
    /\ serving > 0
    /\ serving' = serving - 1
    /\ UNCHANGED <<Registry, pending, handler, tasks, execs, adding, pc>>
    /\ UNCHANGED <<tableVars, rd, pollVars>>

NextSched ==
    \/ StartTicker
    \/ ListenAndServe
    \/ \E t \in DOMAIN tasks : Tick(t) \/ ExecuteBegin(t) \/ ExecuteEnd(t)
    \/ ServeHTTPBegin
    \/ ServeHTTPEnd

SpecSched == InitSched /\ [][NextSched]_vars

\* ------------------------------------------------------------ hung command
\* the command of a command poller hangs: exec.Command(...).Output() in Stat
\* never returns, and neither does the Execute that called it
Hang(t) ==
    /\ tasks[t].pc = "execute"
    /\ tasks[t].exec \in Configured
    /\ tasks' = [tasks EXCEPT ![t].pc = "hung"]
    /\ UNCHANGED <<Registry, pending, handler, execs, adding, serving, pc>>
    /\ UNCHANGED <<tableVars, rd, pollVars>>

\* main has registered the built-in handlers and one command poller
InitHang ==
    /\ InitSched
    /\ Registry = Builtin @@ ("/a" :> 1)

NextHang ==
    \/ StartTicker
    \/ ListenAndServe
    \/ \E t \in DOMAIN tasks :
          Tick(t) \/ ExecuteBegin(t) \/ ExecuteEnd(t) \/ Hang(t)

\* the goroutines StartScheduler can have started
TaskIDs == 1..Cardinality(DOMAIN Builtin \cup Configured)

\* fair scheduling: main's loop goes on, a goroutine that can receive a tick
\* does, and an Execute that does not hang returns
FairHang ==
    /\ WF_vars(StartTicker)
    /\ \A t \in TaskIDs :
          /\ WF_vars(IF t \in DOMAIN tasks THEN ExecuteBegin(t) ELSE FALSE)
          /\ WF_vars(IF t \in DOMAIN tasks THEN ExecuteEnd(t) ELSE FALSE)

SpecHang == InitHang /\ [][NextHang]_vars /\ FairHang

\* ---------------------------------------------------------- command poller
\* the properties of the configured command handler (handler.Properties)
PropNames == {"Used", "Free"}

\* the labels the lines of the command's output can carry
Labels == PropNames \cup {"Buffer"}

\* the text a property's group can capture: characters are digits or "x"
Captures == {<<"1", "2">>, <<"x">>}

\* the resolutions of every table of a command handler
CommandTSProps ==
    <<[RollUp |-> 60, Cap |-> 300], [RollUp |-> 60, Cap |-> 300],
      [RollUp |-> 60, Cap |-> 240]>>

\* a line of output, as the regular expressions see it: the label it carries
\* and the text in front of the label
OutputLines == [label : Labels, text : Captures]

\* what exec.Command(...).Output() can return: an error, or the output,
\* split into lines by strings.Split
Outputs ==
    {[err |-> TRUE, lines |-> <<>>]} \cup
    {[err |-> FALSE, lines |-> l] :
        l \in UNION {[1..n -> OutputLines] : n \in 0..MaxLines}}

\* a property's regular expression: "(\S+) K <label> memory" with one group,
\* or "(\S+) K (<label>) memory" with two
Regexes(name) == {[label |-> name, groups |-> g] : g \in {1, 2}}

\* Regex.FindStringSubmatch(line): nil when the line does not match, else
\* the whole match followed by the text of each group
FindStringSubmatch(re, line) ==
    IF line.label # re.label THEN <<>>
    ELSE <<line.text>> \o
         [g \in 1..re.groups |-> IF g = 1 THEN line.text ELSE <<>>]

\* a match of any number of groups counts
OneGroupAny(subMatches) == subMatches # <<>>

\* len(subMatches) == 2: the line matches a regex of one group
OneGroup(subMatches) == Len(subMatches) = 2

\* the inner loop of Stat for one property: every line that matches sets
\* props[name], so the last one stays
RECURSIVE ScanLines(_, _, _)
ScanLines(re, lines, values) ==
    IF lines = <<>> THEN values
    ELSE LET subMatches == FindStringSubmatch(re, Head(lines)) IN
         ScanLines(re, Tail(lines),
                   IF OneGroup(subMatches)
                   THEN (re.label :> subMatches[2]) @@ values
                   ELSE values)

\* the outer loop of Stat over handler.Properties
RECURSIVE ScanProperties(_, _, _)
ScanProperties(names, h, lines) ==
    IF names = {} THEN <<>>
    ELSE LET name == CHOOSE n \in names : TRUE IN
         ScanLines(h.Properties[name], lines,
                   ScanProperties(names \ {name}, h, lines))

\* CommandHandler.Stat: the map from property name to captured text, nil
\* when the command failed
Stat(h, out) ==
    IF out.err THEN <<>>
    ELSE ScanProperties(DOMAIN h.Properties, h, out.lines)

\* the value of a decimal digit
Digit == ("0" :> 0) @@ ("1" :> 1) @@ ("2" :> 2) @@ ("3" :> 3) @@ ("4" :> 4)
         @@ ("5" :> 5) @@ ("6" :> 6) @@ ("7" :> 7) @@ ("8" :> 8) @@ ("9" :> 9)

\* the longest prefix of s made of digits
RECURSIVE FloatToken(_)
FloatToken(s) ==
    IF s = <<>> \/ Head(s) \notin DOMAIN Digit THEN <<>>
    ELSE <<Digit[Head(s)]>> \o FloatToken(Tail(s))

\* fmt.Sscanf(val, "%f", &floatVal) on a zero floatVal: the number in front
\* of val is stored; when there is none Sscanf returns an error, which is
\* dropped, and floatVal keeps its zero
SscanfFloat(val) ==
    LET token == FloatToken(val) IN
    [err |-> token = <<>>,
     floatVal |-> IF token = <<>> THEN Float64(0) ELSE Float64(Sscanf(token))]

\* the body of Execute's loop: prop.TS.Add(floatVal), result dropped
ExecuteAdd(S, val) ==
    [TableAdd(S, SscanfFloat(val).floatVal) EXCEPT !.now = @ + 1]

\* an Execute that ranges over handler.Properties
ExecuteKeysAll(h, values) == DOMAIN h.Properties

\* the keys Execute's loop ranges over: those of the map Stat returned
ExecuteKeys(h, values) == DOMAIN values

\* NewCommandHandler: one compiled regex and one table per property, each
\* table in a directory of its own
InitCmd ==
    /\ \E re \in [PropNames -> UNION {Regexes(name) : name \in PropNames}] :
        /\ \A name \in PropNames : re[name] \in Regexes(name)
        /\ LET S == NewTimeSeriesTable(EmptyDisk(Len(CommandTSProps)),
                                       CommandTSProps)
           IN cmd = [Properties |-> re,
                     TS |-> [name \in PropNames |-> S],
                     prev |-> [name \in PropNames |-> S],
                     out |-> [err |-> FALSE, lines |-> <<>>],
                     props |-> <<>>,
                     runs |-> 0,
                     ticks |-> 0]
    /\ cpu = <<>>
    /\ NoTable
    /\ NoScheduler

\* one tick of the command handler's ticker: CommandHandler.Execute
ExecuteCommand ==
    /\ cmd.ticks < MaxTicks
    /\ \E out \in Outputs :
        LET values == Stat(cmd, out) IN
        cmd' = [cmd EXCEPT
                   !.out = out,
                   !.props = values,
                   !.prev = cmd.TS,
                   !.TS = [name \in PropNames |->
                              IF name \in ExecuteKeys(cmd, values)
                              THEN ExecuteAdd(cmd.TS[name],
                                              IF name \in DOMAIN values
                                              THEN values[name] ELSE <<>>)
                              ELSE cmd.TS[name]],
                   !.runs = @ + 1,
                   !.ticks = @ + 1]
    /\ UNCHANGED <<tableVars, schedVars, rd, cpu>>

NextCmd == ExecuteCommand

SpecCmd == InitCmd /\ [][NextCmd]_vars

\* ---------------------------------------------------------- CPU-load poller
\* the indices of the counters in SystemLoad.Stats
USER == 0
SYSTEM == 2
IDLE == 3
NUM_STATS == 7

\* a uint32 is kept as two 16-bit halves, value = hi * Half + lo
Half == 65536

\* the uint32 of a small number
Uint32(n) == [hi |-> 0, lo |-> n]

\* the largest uint32
MaxUint32 == [hi |-> Half - 1, lo |-> Half - 1]

\* curr.Stats[i] - prev.Stats[i] in uint32: the difference modulo 2^32
Sub32(a, b) ==
    LET borrow == IF a.lo < b.lo THEN 1 ELSE 0 IN
    [hi |-> (a.hi - b.hi - borrow + 2 * Half) % Half,
     lo |-> (a.lo - b.lo + Half) % Half]

\* total += c in uint32: the sum modulo 2^32
Add32(a, b) ==
    LET carry == (a.lo + b.lo) \div Half IN
    [hi |-> (a.hi + b.hi + carry) % Half,
     lo |-> (a.lo + b.lo) % Half]

\* a <= b for two uint32
Leq32(a, b) == a.hi < b.hi \/ (a.hi = b.hi /\ a.lo <= b.lo)

\* the values a counter of /proc/stat is read as
Counters == {Uint32(n) : n \in 0..MaxCount} \cup {MaxUint32}

\* NewSystemLoad: the seven counters of the first line of /proc/stat, on a
\* machine whose counters other than user, system and idle stay at 0
Snapshots ==
    {[k \in 0..(NUM_STATS - 1) |->
         IF k = USER THEN u ELSE IF k = SYSTEM THEN s
         ELSE IF k = IDLE THEN d ELSE Uint32(0)] :
        u \in Counters, s \in Counters, d \in Counters}

\* SystemLoad.Diff
Diff(curr, prev) == [k \in DOMAIN curr |-> Sub32(curr[k], prev[k])]

\* SystemLoad.Total: the counters are added up from the first to the last
RECURSIVE TotalUpTo(_, _)
TotalUpTo(stats, n) ==
    IF n = 0 THEN Uint32(0)
    ELSE Add32(TotalUpTo(stats, n - 1), stats[n - 1])

Total(stats) == TotalUpTo(stats, NUM_STATS)

\* float64(stat) / float64(t): both conversions are exact; the quotient is
\* kept as the pair it is the fraction of.  A zero divisor gives NaN for 0/0
\* and +Inf otherwise
FloatDiv(stat, t) ==
    IF t = Uint32(0)
    THEN [class |-> IF stat = Uint32(0) THEN "NaN" ELSE "+Inf",
          num |-> stat, den |-> t]
    ELSE [class |-> "finite", num |-> stat, den |-> t]

\* SystemLoad.ToRelative
ToRelative(stats) ==
    LET t == Total(stats) IN [k \in DOMAIN stats |-> FloatDiv(stats[k], t)]

\* NewCPULoadHandler: three empty tables and the first snapshot.  A table is
\* kept as the sequence of the values passed to its Add
InitCPU ==
    /\ \E load \in Snapshots :
        cpu = [Load |-> load,
               prev |-> load,
               UserTS |-> <<>>, SystemTS |-> <<>>, IdleTS |-> <<>>,
               ticks |-> 0]
    /\ cmd = <<>>
    /\ NoTable
    /\ NoScheduler

\* CPULoadHandler.Execute on a tick
ExecuteCPULoad ==
    /\ cpu.ticks < MaxTicks
    /\ \E curr \in Snapshots :
        LET diff == Diff(curr, cpu.Load)
            rel == ToRelative(diff)
        IN cpu' = [cpu EXCEPT
                      !.Load = curr,
                      !.prev = cpu.Load,
                      !.UserTS = Append(@, rel[USER]),
                      !.SystemTS = Append(@, rel[SYSTEM]),
                      !.IdleTS = Append(@, rel[IDLE]),
                      !.ticks = @ + 1]
    /\ UNCHANGED <<tableVars, schedVars, rd, cmd>>

NextCPU == ExecuteCPULoad

SpecCPU == InitCPU /\ [][NextCPU]_vars

\* the goroutines started for the handler at path
TasksOf(path) == {t \in DOMAIN tasks : tasks[t].handler = path}

\* the goroutines that are inside Execute of the handler at path
Executing(path) ==
    {t \in DOMAIN tasks :
        tasks[t].pc \in {"execute", "hung"} /\ tasks[t].exec = path}

\* -------------------------------------------------------------- decode loop
\* a Decode that, on a type descriptor it has already seen, fails without
\* taking the descriptor off the stream
RECURSIVE DecodeStuck(_, _)
DecodeStuck(msgs, seen) ==
    IF msgs = <<>>
    THEN [err |-> "EOF", msgs |-> msgs, seen |-> seen, dp |-> <<>>]
    ELSE LET m == Head(msgs) IN
         IF m.kind = "partial"
         THEN [err |-> "ErrUnexpectedEOF", msgs |-> <<>>, seen |-> seen,
               dp |-> <<>>]
         ELSE IF m.kind = "type"
         THEN IF m.id \in seen
              THEN [err |-> "duplicate type", msgs |-> msgs,
                    seen |-> seen, dp |-> <<>>]
              ELSE DecodeStuck(Tail(msgs), seen \cup {m.id})
         ELSE [err |-> "nil", msgs |-> Tail(msgs), seen |-> seen,
               dp |-> <<m.dp>>]

\* one call dec.Decode(&dp) on what is left of the stream: it takes type
\* descriptors off the stream until a value arrives, which it returns; a
\* descriptor already seen fails the call after it was read; a message cut
\* short by the end of the file fails it with io.ErrUnexpectedEOF and leaves
\* nothing to read; at the end of the file it returns io.EOF
RECURSIVE Decode(_, _)
Decode(msgs, seen) ==
    IF msgs = <<>>
    THEN [err |-> "EOF", msgs |-> msgs, seen |-> seen, dp |-> <<>>]
    ELSE LET m == Head(msgs) IN
         IF m.kind = "partial"
         THEN [err |-> "ErrUnexpectedEOF", msgs |-> <<>>, seen |-> seen,
               dp |-> <<>>]
         ELSE IF m.kind = "type"
         THEN IF m.id \in seen
              THEN [err |-> "duplicate type", msgs |-> Tail(msgs),
                    seen |-> seen, dp |-> <<>>]
              ELSE Decode(Tail(msgs), seen \cup {m.id})
         ELSE [err |-> "nil", msgs |-> Tail(msgs), seen |-> seen,
               dp |-> <<m.dp>>]

\* the messages a file is made of: the two type descriptors of a DataPoint
\* and two records
Msgs ==
    {TypeMsg("DataPoint"), TypeMsg("Time")}
        \cup {ValueMsg([Tstamp |-> t, Val |-> Float64(t)]) : t \in 0..1}

\* the finite file contents: up to MaxMsgs whole messages in any order, and
\* possibly a message cut short at the end
Contents ==
    LET whole == UNION {[1..n -> Msgs] : n \in 0..MaxMsgs}
    IN whole \cup {Append(c, PartialMsg) : c \in whole}

\* ReadAll after os.Open and gob.NewDecoder: the reader is at the head of
\* the file, the decoder has seen no type, data is empty
InitDecode ==
    /\ \E c \in Contents :
        rd = [pc |-> "decode", file |-> c, msgs |-> c, seen |-> {},
              data |-> <<>>, ignored |-> 0, err |-> FALSE]
    /\ NoTable
    /\ Registry = <<>>
    /\ pending = {}
    /\ handler = ""
    /\ tasks = <<>>
    /\ execs = <<>>
    /\ adding = <<>>
    /\ serving = 0
    /\ pc = "test"
    /\ NoPollers

\* one iteration of the loop of ReadAll: a decoded record is appended,
\* io.EOF breaks the loop, any other error is ignored
ReadAllDecode ==
    /\ rd.pc = "decode"
    /\ LET r == Decode(rd.msgs, rd.seen) IN
        rd' = IF r.err = "nil"
              THEN [rd EXCEPT !.msgs = r.msgs, !.seen = r.seen,
                              !.data = @ \o r.dp]
              ELSE IF r.err = "EOF"
              THEN [rd EXCEPT !.msgs = r.msgs, !.seen = r.seen,
                              !.pc = "break"]
              ELSE [rd EXCEPT !.msgs = r.msgs, !.seen = r.seen,
                              !.ignored = @ + 1]
    /\ UNCHANGED <<tableVars, schedVars, pollVars>>

\* ReadAll returns data and a nil error
ReadAllReturn ==
    /\ rd.pc = "break"
    /\ rd' = [rd EXCEPT !.pc = "done"]
    /\ UNCHANGED <<tableVars, schedVars, pollVars>>

NextDecode == ReadAllDecode \/ ReadAllReturn

\* the goroutine that runs ReadAll keeps running
FairDecode == WF_vars(ReadAllDecode) /\ WF_vars(ReadAllReturn)

SpecDecode == InitDecode /\ [][NextDecode]_vars /\ FairDecode

\* ------------------------------------------------------------------ views
\* the levels are the ones opened on the empty directory
Fresh == opens = 0

\* TimeSeries.ReadAll of level j in the current state
ReadAll(j) == TimeSeriesReadAll(State, j)

\* the values of a sequence of data points
Vals(data) == [k \in DOMAIN data |-> data[k].Val]

\* the segment files in the directory of level j
Files(j) == DOMAIN dirs[TS[j].Path].files

\* level j has rolled over with three logs in its list (it has evicted)
Evicted(j) == TS[j].NextID > 3

\* s is a contiguous suffix of h
IsSuffix(s, h) ==
    /\ Len(s) <= Len(h)
    /\ s = SubSeq(h, Len(h) - Len(s) + 1, Len(h))

\* the values of data form a consecutive ramp: each is its predecessor plus 1
IsRamp(data) ==
    \A k \in 2..Len(data) :
        data[k].Val = RatAdd(data[k - 1].Val, Float64(1))

\* the sum and the arithmetic mean of a non-empty sequence of values
RECURSIVE SumOf(_)
SumOf(s) == IF s = <<>> THEN Float64(0) ELSE RatAdd(Head(s), SumOf(Tail(s)))

MeanOf(s) == RatDiv(SumOf(s), Len(s))

\* the means of the completed chunks of R values of h, in chunk order
ChunkMeans(h, R) ==
    [k \in 1..(Len(h) \div R) |-> MeanOf(SubSeq(h, (k - 1) * R + 1, k * R))]

\* the number of complete records in the files of level j's directory
Persisted(j) ==
    LET RECURSIVE Records(_)
        Records(names) ==
            IF names = {} THEN 0
            ELSE LET p == CHOOSE x \in names : TRUE
                     c == inodes[dirs[TS[j].Path].files[p]]
                 IN Cardinality({k \in DOMAIN c : c[k].kind = "value"})
                        + Records(names \ {p})
    IN Records(Files(j))

\* the records written whole to the file of log k of level j, in file order
CompleteRecords(j, k) ==
    LET c == inodes[dirs[TS[j].Path].files[TS[j].Logs[k].path]]
        v == SelectSeq(c, LAMBDA m : m.kind = "value")
    IN [n \in DOMAIN v |-> v[n].dp]

\* the file of log k of level j ends in a message that was written in part
TornTail(j, k) ==
    LET c == inodes[dirs[TS[j].Path].files[TS[j].Logs[k].path]] IN
    c # <<>> /\ c[Len(c)].kind = "partial"

\* a < b for two rationals
RatLess(a, b) == a[1] * b[2] < b[1] * a[2]

\* ----------------------------------------------------------------- claims
\* C1: in a level opened on an empty directory (cap >= 2), the segment list
\* holds at most 3 segments after every Add.
C1_AtMostThreeSegments ==
    Fresh => \A j \in DOMAIN TS : Len(TS[j].Logs) <= 3

C1_Witness ==
    /\ Fresh /\ last = "add"
    /\ \E j \in DOMAIN TS : Evicted(j) /\ Len(TS[j].Logs) = 3

\* C2: in a level opened on an empty directory, whenever Len >= cap (and Len
\* never decreases there, so from then on), ReadAll succeeds and returns at
\* least cap/2 points.
C2_RetentionFloor ==
    Fresh => \A j \in DOMAIN TS :
        TS[j].Len >= TS[j].Cap =>
            /\ ~ReadAll(j).err
            /\ Len(ReadAll(j).data) >= TS[j].Cap \div 2

C2_Witness ==
    /\ Fresh /\ last = "add"
    /\ \E j \in DOMAIN TS :
        /\ Evicted(j) /\ TS[j].Cap >= 4 /\ TS[j].Len >= TS[j].Cap
        /\ Len(ReadAll(j).data) < TS[j].Len

\* C3: in a level opened on an empty directory, for every cap >= 2 (odd ones
\* included), once the level has received at least Cap Adds, ReadAll returns
\* at least Cap points after every Add.
C3_CapIsMinimum ==
    Fresh => \A j \in DOMAIN TS :
        Len(hist[j]) >= TS[j].Cap => Len(ReadAll(j).data) >= TS[j].Cap

C3_Witness ==
    /\ Fresh /\ last = "add"
    /\ \E j \in DOMAIN TS :
        /\ Evicted(j) /\ TS[j].Cap % 2 = 1 /\ TS[j].Cap >= 5
        /\ Len(ReadAll(j).data) = TS[j].Cap

\* C4: for every sequence of Adds on a level, ReadAll never returns more than
\* cap + cap/2 points.
C4_RetentionCeiling ==
    \A j \in DOMAIN TS :
        Len(ReadAll(j).data) <= TS[j].Cap + TS[j].Cap \div 2

\* C5: after any sequence of Adds, ReadAll of a level returns at most Cap
\* points.
C5_CapIsMaximum ==
    \A j \in DOMAIN TS : Len(ReadAll(j).data) <= TS[j].Cap

\* C6: in a level opened on an empty directory (never opened again), ReadAll
\* succeeds and returns a contiguous suffix of the values added to the level,
\* in the order they were added; at the top level, fed the ramp, every value
\* is its predecessor plus 1.
C6_ContiguousSuffix ==
    Fresh => \A j \in DOMAIN TS :
        LET r == ReadAll(j) IN
        /\ ~r.err
        /\ IsSuffix(Vals(r.data), hist[j])
        /\ j = Len(TS) => IsRamp(r.data)

C6_Witness ==
    /\ Fresh /\ last = "add"
    /\ \E j \in DOMAIN TS :
        /\ Evicted(j) /\ Len(TS[j].Logs) = 3
        /\ Len(ReadAll(j).data) >= 3
        /\ Len(ReadAll(j).data) < Len(hist[j])

C8_CoalescingMean ==
    Fresh => \A j \in DOMAIN TS :
        TS[j].LowerLevel # 0 =>
            hist[TS[j].LowerLevel] = ChunkMeans(hist[j], TS[j].RollUp)

C8_Witness ==
    /\ Fresh /\ last = "add"
    /\ \E j \in DOMAIN TS :
        /\ TS[j].LowerLevel # 0 /\ TS[j].RollUp >= 2
        /\ Len(hist[TS[j].LowerLevel]) >= 2
        /\ Len(hist[j]) % TS[j].RollUp # 0

\* C9 as stated: in a table [(R0,C0),(R1,C1),(R2,C2)] (finest first), after
\* N = R1*R2 samples were added to the top, level 1 holds N/R2 samples and
\* level 0 holds N/(R2*R1) samples.
C9_ChainingByR2 ==
    (Len(props) = 3 /\ Fresh /\ i = props[2].RollUp * props[3].RollUp) =>
        /\ TS[2].Len = i \div props[3].RollUp
        /\ TS[1].Len = i \div (props[3].RollUp * props[2].RollUp)

\* C9 amended: after N samples were added to the top of such a table (any N,
\* N = R1*R2 included), level 1 holds N/R0 samples and level 0 holds
\* N/(R0*R1) samples (integer division), R0 being the RollUp of the finest
\* level; R2 plays no part.
C9_ChainingByR0 ==
    (Len(props) = 3 /\ Fresh) =>
        /\ TS[3].Len = i
        /\ TS[2].Len = i \div props[1].RollUp
        /\ TS[1].Len = i \div (props[1].RollUp * props[2].RollUp)

C9_Witness ==
    /\ Len(props) = 3 /\ Fresh /\ last = "add"
    /\ props[1].RollUp # props[3].RollUp
    /\ i = props[2].RollUp * props[3].RollUp
    /\ TS[1].Len >= 1

\* C10: right after a level's directory was opened again, Len equals the
\* number of complete records in the directory's segment files.
C10_ReopenLen ==
    last = "open" => \A j \in DOMAIN TS : TS[j].Len = Persisted(j)

C10_Witness ==
    /\ last = "open" /\ opens = 2
    /\ \E j \in DOMAIN TS :
        /\ TS[j].Len > 0 /\ TS[j].Len < Len(hist[j])
        /\ \E p \in Files(j) :
            LET c == inodes[dirs[TS[j].Path].files[p]] IN
            Cardinality({k \in DOMAIN c : c[k].kind = "type"}) > 2

C12_IDsIncreasing ==
    Fresh => \A j \in DOMAIN TS :
        \A k \in 2..Len(ids[j]) : ids[j][k - 1] < ids[j][k]

C12_Witness ==
    /\ Fresh /\ last = "add"
    /\ \E j \in DOMAIN TS :
        /\ Len(ids[j]) >= 4
        /\ Evicted(j)
        /\ ids[j][Len(ids[j])] = TS[j].NextID - 1

\* C13: ReadAll of a log whose file exists returns, without an error, exactly
\* the records written whole to the file, in the order they were appended,
\* whether or not a record written in part trails them.
C13_ReadAllCompleteRecords ==
    \A j \in DOMAIN TS : \A k \in DOMAIN TS[j].Logs :
        TS[j].Logs[k].path \in Files(j) =>
            LET r == LogReadAll(State, TS[j].Path, TS[j].Logs[k]) IN
            /\ ~r.err
            /\ r.data = CompleteRecords(j, k)

C13_Witness ==
    /\ last = "crash"
    /\ \E j \in DOMAIN TS : \E k \in DOMAIN TS[j].Logs :
        /\ TS[j].Logs[k].path \in Files(j)
        /\ TornTail(j, k)
        /\ Len(CompleteRecords(j, k)) >= 2
        /\ LogReadAll(State, TS[j].Path, TS[j].Logs[k]).data
               = CompleteRecords(j, k)

\* C14: if the append to the current log (TimeSeriesLog.Add) fails during a
\* level's Add, Table.Add returns the error.
C14_WriteErrorReturned ==
    (last = "execute" /\ fault.kind = "write") => ret

\* C15: when Table.Add returns an error during a poller's tick, the poller
\* ends the process, whether it is a command poller or the CPU load poller.
C15_AddErrorIsFatal ==
    (last = "execute" /\ ret) => exited

\* C16: when the Add of a lower level fails inside a level's Add, the upper
\* Add returns the error, up to Table.Add, and every level above the failing
\* one keeps its own write: the sample is appended to its current log and
\* its Len is incremented.
C16_LowerErrorKeepsUpperWrite ==
    [][(last' = "execute" /\ fault'.kind = "create"
            /\ fault'.level < Len(TS))
        => /\ ret'
           /\ \A j \in (fault'.level + 1)..Len(TS) :
                 /\ TS'[j].Len = TS[j].Len + 1
                 /\ hist'[j] # hist[j]
                 /\ ~ReadAll(j)'.err
                 /\ Vals(ReadAll(j)'.data) # <<>>
                 /\ Vals(ReadAll(j)'.data)[Len(ReadAll(j)'.data)]
                        = hist'[j][Len(hist'[j])]]_vars

C16_Witness ==
    /\ last = "execute" /\ fault.kind = "create" /\ fault.level = 1
    /\ Len(TS) = 3
    /\ ret
    /\ Len(hist[3]) = i /\ TS[3].Len = i
    /\ TS[2].Len >= 2
    /\ TS[1].Len < Len(hist[2]) \div TS[2].RollUp

\* C17: the top level TS[n-1] (here TS[n]) is built from the first entry of
\* the properties, each level has the level below it in TS as its lower
\* level, and the coarsest level TS[0] (here TS[1]) has none.  Table.Add
\* calls Add on the top level, exactly once; every other level receives an
\* Add only within the Add of the level above it, of which it is the lower
\* level, and at most one per Table.Add.
C17_AddEntersAtTop ==
    /\ [](/\ TS[Len(TS)].RollUp = props[1].RollUp
          /\ TS[Len(TS)].Cap = props[1].Cap
          /\ TS[Len(TS)].Path = 0
          /\ \A j \in DOMAIN TS : TS[j].LowerLevel = j - 1)
    /\ [][last' = "add" =>
            /\ hist'[Len(TS)] = Append(hist[Len(TS)], Float64(i))
            /\ \A k \in 1..(Len(TS) - 1) :
                  \/ hist'[k] = hist[k]
                  \/ /\ Len(hist'[k]) = Len(hist[k]) + 1
                     /\ Len(hist'[k + 1]) = Len(hist[k + 1]) + 1
                     /\ TS[k + 1].BatchLen + 1 = TS[k + 1].RollUp
                     /\ TS'[k + 1].BatchLen = 0]_vars

C17_Witness ==
    /\ last = "add" /\ Len(TS) = 3
    /\ props[1].RollUp # props[3].RollUp
    /\ Len(hist[1]) >= 1
    /\ Len(hist[3]) > Len(hist[2])
    /\ Len(hist[2]) > Len(hist[1])
    /\ TS[3].BatchLen > 0

\* C18: at most one Add is in progress on the tables of a handler at any
\* time: Add is called only from Execute of the handler that owns the
\* tables, and two Execute calls of one handler never overlap, whatever the
\* number of pollers and of HTTP requests being served.
C18_OneAddInProgress ==
    \A path \in DOMAIN Registry :
        /\ adding[path] <= 1
        /\ Cardinality(Executing(path)) <= 1
        /\ adding[path] =
               (IF HasTables(path) THEN Cardinality(Executing(path)) ELSE 0)

C18_Witness ==
    /\ adding["/cpu"] = 1
    /\ "/a" \in DOMAIN Registry /\ adding["/a"] = 1
    /\ serving = 2
    /\ execs["/a"] = 2
    /\ \E t \in TasksOf("/a") : tasks[t].fired = 2

\* C20: StartScheduler starts exactly one periodic task for every registered
\* handler whose PollInterval is greater than 0 and none for any other
\* handler, and the scheduler calls Execute only on handlers that have a
\* task.
C20_OneTaskPerPoller ==
    \A path \in DOMAIN Registry :
        /\ path \in pending => TasksOf(path) = {}
        /\ path \notin pending =>
              Cardinality(TasksOf(path)) = (IF Registry[path] > 0 THEN 1 ELSE 0)
        /\ execs[path] > 0 => (Registry[path] > 0 /\ TasksOf(path) # {})
        /\ Executing(path) # {} => TasksOf(path) # {}

C20_Witness ==
    /\ pc = "serve"
    /\ DOMAIN Registry = {"/config", "/", "/cpu", "/a", "/b"}
    /\ Registry["/a"] = 0 /\ Registry["/b"] = 1
    /\ Len(tasks) = 2
    /\ execs["/b"] = 2 /\ execs["/cpu"] = 1 /\ execs["/a"] = 0

\* C19: a ReadAll of a level that runs while the single writer adds to the
\* table (roll-overs that evict the oldest log included) returns without an
\* error, and its values are values added to the level, in the order they
\* were added and without duplicates (the values added are increasing).
C19_ConcurrentReadAll ==
    rd.pc = "done" =>
        /\ ~rd.err
        /\ \A k \in DOMAIN rd.data :
              \E n \in DOMAIN hist[rd.level] :
                   rd.data[k].Val = hist[rd.level][n]
        /\ \A k \in 2..Len(rd.data) :
              RatLess(rd.data[k - 1].Val, rd.data[k].Val)

TickWaiting(t) ==
    IF t \in DOMAIN tasks
    THEN tasks[t].tick /\ tasks[t].pc # "hung"
    ELSE FALSE

\* C22: a poller whose Execute never returns blocks only its own ticks:
\* under fair scheduling, a tick waiting for any poller that is not hung is
\* eventually taken by an Execute of that poller, whether or not another
\* poller hangs.
C22_OthersKeepExecuting ==
    \A t \in TaskIDs :
        TickWaiting(t) ~> ~TickWaiting(t)

C22_Witness ==
    /\ \E t \in TasksOf("/a") : tasks[t].pc = "hung" /\ tasks[t].tick
    /\ \E t \in TasksOf("/cpu") :
          /\ tasks[t].pc = "execute" /\ tasks[t].replay
          /\ execs["/cpu"] = 2

\* the samples in the finest level of the table of a property, now and
\* before the last tick
Samples(name) ==
    Vals(TimeSeriesReadAll(cmd.TS[name], TopLevel(cmd.TS[name])).data)

PrevSamples(name) ==
    Vals(TimeSeriesReadAll(cmd.prev[name], TopLevel(cmd.prev[name])).data)

\* the lines of the last output that the regex of a property matches with
\* two submatches
Matching(name) ==
    {k \in DOMAIN cmd.out.lines :
        /\ cmd.out.lines[k].label = cmd.Properties[name].label
        /\ cmd.Properties[name].groups = 1}

\* the first of a nonempty set of line numbers
FirstOf(ks) == CHOOSE k \in ks : \A m \in ks : k <= m

\* C23 (as stated): the value of a property is the group of the first line
\* that matches with two submatches; later matching lines do not change it.
C23_FirstMatchTaken ==
    cmd.ticks > 0 /\ ~cmd.out.err =>
        \A name \in PropNames :
            Matching(name) # {} =>
                /\ name \in DOMAIN cmd.props
                /\ cmd.props[name] = cmd.out.lines[FirstOf(Matching(name))].text

\* C24: when the command fails on a tick, no table of the poller is modified
\* on that tick, and the command has run once per tick (no retry).
C24_FailedCommandNoSample ==
    /\ cmd.runs = cmd.ticks
    /\ cmd.out.err => \A name \in PropNames : cmd.TS[name] = cmd.prev[name]

C24_Witness ==
    /\ cmd.ticks = 2
    /\ cmd.out.err
    /\ \A name \in PropNames : Samples(name) = <<Float64(12)>>

\* C25: on a tick whose command ran, a property no line matches gets no
\* sample (its table is untouched), and every property some line matches
\* gets exactly one sample appended.
C25_UnmatchedSkipped ==
    cmd.ticks > 0 /\ ~cmd.out.err =>
        \A name \in PropNames :
            IF Matching(name) = {}
            THEN cmd.TS[name] = cmd.prev[name]
            ELSE /\ Len(Samples(name)) = Len(PrevSamples(name)) + 1
                 /\ SubSeq(Samples(name), 1, Len(PrevSamples(name)))
                       = PrevSamples(name)

C25_Witness ==
    /\ cmd.ticks = 2
    /\ ~cmd.out.err
    /\ Len(cmd.out.lines) = 2
    /\ Matching("Used") = {}
    /\ Matching("Free") = {1, 2}
    /\ Len(Samples("Used")) = 1
    /\ Len(Samples("Free")) = 2

\* C26 (as stated): a property whose captured text does not parse as a float
\* is skipped on that tick: no sample is appended to its table.
C26_ParseFailureSkipped ==
    \A name \in DOMAIN cmd.props :
        SscanfFloat(cmd.props[name]).err => cmd.TS[name] = cmd.prev[name]

\* the sum of the seven deltas of the last tick does not fit 32 bits
TotalWraps ==
    LET diff == Diff(cpu.Load, cpu.prev)
        his == SumOf([k \in 1..NUM_STATS |-> Float64(diff[k - 1].hi)])[1]
        los == SumOf([k \in 1..NUM_STATS |-> Float64(diff[k - 1].lo)])[1]
    IN his + (los \div Half) >= Half

\* the values the last tick appended to the three tables, with the counter
\* each was computed from
LastAppended ==
    {[stat |-> USER, val |-> cpu.UserTS[cpu.ticks]],
     [stat |-> SYSTEM, val |-> cpu.SystemTS[cpu.ticks]],
     [stat |-> IDLE, val |-> cpu.IdleTS[cpu.ticks]]}

\* C27 (as stated): on every tick of the CPU-load poller each of the three
\* appended values is a fraction in [0,1], equal to the counter's delta
\* divided by the sum of the seven deltas, whatever the two snapshots.
C27_FractionsOfDeltas ==
    cpu.ticks > 0 =>
        \A a \in LastAppended :
            /\ a.val.class = "finite"
            /\ Leq32(a.val.num, a.val.den)
            /\ a.val.num = Sub32(cpu.Load[a.stat], cpu.prev[a.stat])
            /\ ~TotalWraps

\* C28: the writer sessions of one segment file concatenate: after a level
\* was closed and opened again on a partially filled current segment, and
\* until its next roll-over, the values added go to that segment's file, and
\* ReadAll succeeds and returns the records it returned right after the
\* open followed by the values added since, in order.
C28_SessionsConcatenate ==
    \A j \in DOMAIN TS :
        LET n == Len(atOpen[j])
            m == TS[j].Len - n
            r == ReadAll(j)
            curr == TS[j].Logs[Len(TS[j].Logs)]
        IN (/\ opened /\ opens > 0
            /\ ids[j] = <<>>
            /\ n % BucketSize(TS[j]) # 0)
           => /\ ~r.err
              /\ m >= 0
              /\ Len(r.data) = n + m
              /\ SubSeq(r.data, 1, n) = atOpen[j]
              /\ Vals(SubSeq(r.data, n + 1, n + m))
                    = SubSeq(hist[j], Len(hist[j]) - m + 1, Len(hist[j]))
              /\ Cardinality({k \in DOMAIN inodes[curr.ino] :
                                 inodes[curr.ino][k].kind = "type"
                                    /\ inodes[curr.ino][k].id = "DataPoint"})
                    >= (IF m > 0 THEN 2 ELSE 1)

C28_Witness ==
    /\ opened /\ opens = 1 /\ last = "add"
    /\ Len(TS) = 1
    /\ ids[1] = <<>>
    /\ Len(atOpen[1]) = 3
    /\ TS[1].Len = 4
    /\ BucketSize(TS[1]) = 2

\* C29 (as stated): right after a level is opened on a directory that holds
\* segments, NextID is the decimal ID of the current (last) segment plus 1;
\* with no segments NextID is 0.
C29_NextIDAfterCurrent ==
    last = "open" =>
        \A j \in DOMAIN TS :
            TS[j].NextID =
                IF TS[j].Logs = <<>> THEN 0
                ELSE Sscanf(TS[j].Logs[Len(TS[j].Logs)].path) + 1

\* C30 (as stated): right after a level is opened again, its list of
\* segments is in creation order (increasing ID) and its last element, the
\* write target, is the segment created last, whatever the decimal widths
\* of the IDs.
C30_ReopenedListInCreationOrder ==
    last = "open" =>
        \A j \in DOMAIN TS :
            LET logs == TS[j].Logs IN
            /\ \A a, b \in DOMAIN logs :
                  a < b => Sscanf(logs[a].path) < Sscanf(logs[b].path)
            /\ logs # <<>> =>
                  \A p \in Files(j) : Sscanf(p) <= Sscanf(logs[Len(logs)].path)

\* the number of records ReadAll finds in the k-th log of level j
LogLen(j, k) == Len(LogReadAll(State, TS[j].Path, TS[j].Logs[k]).data)

\* C31: in a level opened on an empty directory, after every Add each
\* segment of the list other than the last holds exactly cap/2 samples and
\* the last holds between 1 and cap/2 samples.
C31_SegmentsHoldBucketSize ==
    Fresh =>
        \A j \in DOMAIN TS :
            \A k \in DOMAIN TS[j].Logs :
                IF k < Len(TS[j].Logs)
                THEN LogLen(j, k) = TS[j].Cap \div 2
                ELSE LogLen(j, k) \in 1..(TS[j].Cap \div 2)

C31_Witness ==
    /\ Fresh /\ last = "add"
    /\ \E j \in DOMAIN TS :
          /\ TS[j].Cap = 5
          /\ Len(TS[j].Logs) = 3
          /\ TS[j].NextID = 4
          /\ LogLen(j, 3) = 1

\* level j received a value in the step, and it was the one that filled its
\* batch
FillsBatch(j) ==
    /\ Len(hist'[j]) = Len(hist[j]) + 1
    /\ TS[j].BatchLen + 1 = TS[j].RollUp

\* C32: for a level with a lower level, after every Add 0 <= BatchLen <
\* RollUp; the Add that brings the batch to RollUp values passes their mean
\* to the lower level and resets BatchLen and BatchVal to 0.
C32_BatchBelowRollUp ==
    /\ [](\A j \in DOMAIN TS :
            TS[j].LowerLevel # 0 =>
                /\ 0 <= TS[j].BatchLen
                /\ TS[j].BatchLen < TS[j].RollUp
                /\ TS[j].BatchLen = 0 => TS[j].BatchVal = Float64(0))
    /\ [][Add =>
            \A j \in DOMAIN TS :
                (TS[j].LowerLevel # 0 /\ FillsBatch(j)) =>
                    /\ TS'[j].BatchLen = 0
                    /\ TS'[j].BatchVal = Float64(0)
                    /\ hist'[TS[j].LowerLevel] =
                          Append(hist[TS[j].LowerLevel],
                                 RatDiv(RatAdd(TS[j].BatchVal,
                                               hist'[j][Len(hist'[j])]),
                                        TS[j].RollUp))]_vars

C32_Witness ==
    /\ last = "add"
    /\ \E j \in DOMAIN TS :
          /\ TS[j].LowerLevel # 0
          /\ TS[j].RollUp = 2
          /\ TS[j].BatchLen = 0
          /\ Len(hist[j]) = 4
          /\ Len(hist[TS[j].LowerLevel]) = 2

\* the paths of the logs in the list of level j
ListedPaths(j) == {TS[j].Logs[k].path : k \in DOMAIN TS[j].Logs}

\* C33: eviction comes before the creation of the new segment: in a level
\* opened on an empty directory, after every Add the files of the directory
\* are the paths of the list, the list has at most three segments, and the
\* two segments created before the newest one are still there beside it.
C33_EvictionBeforeCreate ==
    Fresh =>
        \A j \in DOMAIN TS :
            /\ Files(j) = ListedPaths(j)
            /\ Len(TS[j].Logs) <= 3
            /\ Cardinality(Files(j)) = Len(TS[j].Logs)
            /\ TS[j].NextID >= 3 =>
                  Files(j) = {Sprintf(TS[j].NextID - d) : d \in 1..3}

C33_Witness ==
    /\ Fresh /\ last = "add"
    /\ \E j \in DOMAIN TS :
          /\ TS[j].NextID = 5
          /\ Files(j) = {Sprintf(2), Sprintf(3), Sprintf(4)}

\* C34 (as stated): across any sequence of Add, Close and reopen the logs
\* in a level's list have pairwise distinct paths and each has its file, so
\* ReadAll returns no record twice and does not fail.
C34_ListedPathsDistinct ==
    \A j \in DOMAIN TS :
        LET logs == TS[j].Logs
            r == ReadAll(j)
        IN /\ \A a, b \in DOMAIN logs : a # b => logs[a].path # logs[b].path
           /\ ListedPaths(j) \subseteq Files(j)
           /\ ~r.err
           /\ \A a, b \in DOMAIN r.data : a # b => r.data[a] # r.data[b]

\* C35: in a table opened on an empty directory, after every Table.Add and
\* for every level with a lower level, the lower level has received
\* floor(n / RollUp) values and BatchLen is n mod RollUp, n being the number
\* of values the level received and RollUp its own; the coarsest level
\* never batches (its RollUp is not used).
C35_LevelCounts ==
    Fresh =>
        \A j \in DOMAIN TS :
            IF TS[j].LowerLevel # 0
            THEN /\ Len(hist[TS[j].LowerLevel])
                       = Len(hist[j]) \div TS[j].RollUp
                 /\ TS[j].BatchLen = Len(hist[j]) % TS[j].RollUp
                 /\ TS[j].LowerLevel = j - 1
            ELSE /\ j = 1
                 /\ TS[j].BatchLen = 0
                 /\ TS[j].BatchVal = Float64(0)

C35_Witness ==
    /\ Fresh /\ last = "add"
    /\ Len(TS) = 3
    /\ TS[3].RollUp = 2 /\ TS[2].RollUp = 2 /\ TS[1].RollUp = 2
    /\ Len(hist[3]) = 7
    /\ Len(hist[2]) = 3
    /\ Len(hist[1]) = 1
    /\ TS[3].BatchLen = 1 /\ TS[2].BatchLen = 1

\* the values level j received since it was opened last
SinceOpen(j) ==
    LET m == TS[j].Len - Len(atOpen[j]) IN
    SubSeq(hist[j], Len(hist[j]) - m + 1, Len(hist[j]))

\* C36: a level is opened with an empty batch (BatchLen = 0, BatchVal = 0):
\* the values of a batch left unfinished at Close go into no value of the
\* lower level, and the chunks of RollUp values start again at the first
\* Add after the open.
C36_BatchRestartsOnOpen ==
    /\ last = "open" =>
          \A j \in DOMAIN TS :
              TS[j].BatchLen = 0 /\ TS[j].BatchVal = Float64(0)
    /\ \A j \in DOMAIN TS :
          TS[j].LowerLevel # 0 =>
              /\ SinceOpen(TS[j].LowerLevel)
                    = ChunkMeans(SinceOpen(j), TS[j].RollUp)
              /\ TS[j].BatchLen = Len(SinceOpen(j)) % TS[j].RollUp

C36_Witness ==
    /\ opens = 1 /\ last = "add"
    /\ Len(TS) = 2
    /\ TS[2].RollUp = 2
    /\ Len(atOpen[2]) = 1
    /\ Len(hist[2]) = 3
    /\ hist[1] = <<Rat(3, 2)>>

\* C37: NewTimeSeries accepts a capacity of 0 or 1; the bucket size is then
\* 0 and the first Add panics on the modulo by zero: it returns no error,
\* creates no segment and leaves Len as it is.
C37_SmallCapAddPanics ==
    /\ \A j \in DOMAIN TS :
          /\ TS[j].Cap \in {0, 1}
          /\ TS[j].Len = 0
          /\ TS[j].Logs = <<>>
          /\ TS[j].NextID = 0
          /\ Files(j) = {}
    /\ ~ret
    /\ last = "add" <=> exited

C37_Witness ==
    /\ exited
    /\ last = "add"
    /\ opens = 1
    /\ \E j \in DOMAIN TS : TS[j].Cap = 1

\* C38: when the creation of the new segment fails at the roll-over of a
\* level, its Add returns the error (up to Table.Add) with Len, NextID,
\* BatchLen and BatchVal unchanged and without calling the lower level; the
\* segments evicted in that call are off the list and off the disk.
C38_CreateFailureFrame ==
    [][(last' = "execute" /\ fault'.kind = "create")
        => LET j == fault'.level
               gone == {OldLogs(TS[j].Logs)[k].path :
                           k \in DOMAIN OldLogs(TS[j].Logs)}
           IN /\ ret'
              /\ TS'[j].Len = TS[j].Len
              /\ TS'[j].NextID = TS[j].NextID
              /\ TS'[j].BatchLen = TS[j].BatchLen
              /\ TS'[j].BatchVal = TS[j].BatchVal
              /\ \A k \in 1..(j - 1) :
                    /\ TS'[k] = TS[k]
                    /\ hist'[k] = hist[k]
                    /\ dirs'[TS[k].Path] = dirs[TS[k].Path]
              /\ TS'[j].Logs = KeepLogs(TS[j].Logs)
              /\ DOMAIN dirs'[TS[j].Path].files = Files(j) \ gone]_vars

C38_Witness ==
    /\ last = "execute" /\ fault.kind = "create" /\ ret
    /\ \E j \in DOMAIN TS :
          /\ fault.level = j
          /\ TS[j].LowerLevel # 0
          /\ TS[j].NextID = 3
          /\ Len(TS[j].Logs) = 2
          /\ Files(j) = {Sprintf(1), Sprintf(2)}


\* ------------------------------------------------------- write descriptors
\* the write descriptors the process holds open for the logs of level j
OpenHandles(j) == handles[TS[j].Path]

\* C39: the write descriptors a level holds open never exceed the number of
\* logs in its list, which is at most 3: they do not grow with the roll-overs
C39_HandlesBoundedByList ==
    \A j \in DOMAIN TS :
        /\ OpenHandles(j) <= Len(TS[j].Logs)
        /\ OpenHandles(j) <= 3


\* C40: on every finite file content the decode loop of ReadAll reaches the
\* end of the file and returns, whatever errors it ignored on the way: every
\* iteration that does not break the loop takes something off the stream,
\* and the loop returns the records DecodeAll finds in the file
C40_ReadAllTerminates ==
    /\ <>(rd.pc = "done")
    /\ [](rd.pc = "done" => rd.data = DecodeAll(rd.file, {}, <<>>))
    /\ [][(rd.pc = "decode" /\ rd'.pc = "decode")
            => Len(rd'.msgs) < Len(rd.msgs)]_vars

C40_Witness ==
    /\ rd.pc = "done"
    /\ rd.ignored >= 2
    /\ Len(rd.data) >= 2
    /\ PartialMsg = rd.file[Len(rd.file)]

====
